---- MODULE Spec2Model ----
(***************************************************************************)
(* Model of RavenStyleMatrixProblems/transformation.py: the figure-tree    *)
(* rewrite engine (transform, Transformation, add, remove, replace).       *)
(*                                                                         *)
(* Python objects live in a heap (a sequence of cells, a reference is the  *)
(* index of a cell, None is the reference 0), so that copying, aliasing    *)
(* and in-place list appends are visible.  Val reads the structural value  *)
(* of a reference; structural values are what == compares.                 *)
(***************************************************************************)
EXTENDS Integers, Sequences, FiniteSets, TLC

(* ---------------------------------------------------------------------- *)
(* Bounds of the explored inputs                                           *)
(* ---------------------------------------------------------------------- *)
MaxNodes == 5      \* nodes of the caller's input tree
MaxLocNodes == 3   \* nodes of the loc / condition handed to a call

Shapes == {"a", "b"}          \* drawing routines of BasicElements
ModifierNames == {"m", "n"}   \* decorators of ElementModifiers

(* ---------------------------------------------------------------------- *)
(* Structural values                                                       *)
(* ---------------------------------------------------------------------- *)
NodeV(k, name, element, elements, modifiers) ==
    [k |-> k, name |-> name, element |-> element,
     elements |-> elements, modifiers |-> modifiers]

NoneV == NodeV("None", "", <<>>, <<>>, <<>>)
EmptyV == NodeV("Empty", "", <<>>, <<>>, <<>>)
BasicV(s) == NodeV("Basic", s, <<>>, <<>>, <<>>)
ModifierV(s) == NodeV("Modifier", s, <<>>, <<>>, <<>>)
CompositeV(elts) == NodeV("Composite", "", <<>>, elts, <<>>)
ModifiedV(elt, mods) == NodeV("Modified", "", <<elt>>, <<>>, mods)
FunctionV(s) == NodeV("function", s, <<>>, <<>>, <<>>)

ElementKinds == {"Empty", "Basic", "Composite", "Modified"}

(* ---------------------------------------------------------------------- *)
(* Heap                                                                    *)
(* ---------------------------------------------------------------------- *)
None == 0

Cell(k, name, element, elements, modifiers) ==
    [k |-> k, name |-> name, element |-> element,
     elements |-> elements, modifiers |-> modifiers]

\* the module-level functions add, remove, replace are objects too
ModuleHeap ==
    << Cell("function", "add", None, <<>>, <<>>),
       Cell("function", "remove", None, <<>>, <<>>),
       Cell("function", "replace", None, <<>>, <<>>) >>

FnRef(name) == CHOOSE i \in DOMAIN ModuleHeap : ModuleHeap[i].name = name

New(h, cell) == [h |-> Append(h, cell), r |-> Len(h) + 1, exc |-> ""]

Ret(h, r) == [h |-> h, r |-> r, exc |-> ""]

Raise(h, e) == [h |-> h, r |-> None, exc |-> e]

KindOf(h, r) == IF r = None THEN "None" ELSE h[r].k

RECURSIVE Val(_, _)
Val(h, r) ==
    IF r = None THEN NoneV
    ELSE LET c == h[r] IN
         NodeV(c.k, c.name,
               IF c.element = None THEN <<>> ELSE <<Val(h, c.element)>>,
               [i \in 1..Len(c.elements) |-> Val(h, c.elements[i])],
               [i \in 1..Len(c.modifiers) |-> Val(h, c.modifiers[i])])

\* == on nodes is deep structural equality
Eq(h, x, y) == Val(h, x) = Val(h, y)

\* bool(x): None and EmptyElement are falsy
Truthy(h, r) == KindOf(h, r) \notin {"None", "Empty"}

isinstance(h, r, kinds) == KindOf(h, r) \in kinds

(* constructors of the element module *)
EmptyElement(h) == New(h, Cell("Empty", "", None, <<>>, <<>>))

BasicElement(h, s) == New(h, Cell("Basic", s, None, <<>>, <<>>))

ElementModifier(h, s) == New(h, Cell("Modifier", s, None, <<>>, <<>>))

CompositeElement(h, elts) == New(h, Cell("Composite", "", None, elts, <<>>))

ModifiedElement(h, elt, mods) == New(h, Cell("Modified", "", elt, <<>>, mods))

\* builds a fresh object graph of structural value v
RECURSIVE Alloc(_, _), AllocSeq(_, _)
Alloc(h, v) ==
    IF v.k = "None" THEN Ret(h, None)
    ELSE IF v.k = "function" THEN Ret(h, FnRef(v.name))
    ELSE IF v.k = "Empty" THEN EmptyElement(h)
    ELSE IF v.k = "Basic" THEN BasicElement(h, v.name)
    ELSE IF v.k = "Modifier" THEN ElementModifier(h, v.name)
    ELSE IF v.k = "Composite"
         THEN LET es == AllocSeq(h, v.elements) IN CompositeElement(es.h, es.rs)
    ELSE LET e == Alloc(h, v.element[1])
             ms == AllocSeq(e.h, v.modifiers)
         IN ModifiedElement(ms.h, e.r, ms.rs)

AllocSeq(h, vs) ==
    IF Len(vs) = 0 THEN [h |-> h, rs |-> <<>>]
    ELSE LET a == Alloc(h, vs[1])
             rest == AllocSeq(a.h, SubSeq(vs, 2, Len(vs)))
         IN [h |-> rest.h, rs |-> <<a.r>> \o rest.rs]

\* copy.deepcopy: a fresh, structurally equal object graph; functions and
\* None are atomic and returned as they are
deepcopy(h, r) == Alloc(h, Val(h, r))

(* ---------------------------------------------------------------------- *)
(* Primitive operations                                                    *)
(* ---------------------------------------------------------------------- *)
\* add without the deepcopy: the appends act on the caller's own lists
add_in_place(h, element, addition) ==
    LET output == element
        h1 == h
    IN IF /\ isinstance(h1, output, {"Basic", "Modified"})
          /\ isinstance(h1, addition, ElementKinds)
       THEN CompositeElement(h1, <<output, addition>>)
       ELSE IF /\ isinstance(h1, output, {"Basic", "Composite"})
               /\ isinstance(h1, addition, {"Modifier"})
       THEN ModifiedElement(h1, output, <<addition>>)
       ELSE IF /\ isinstance(h1, output, {"Composite"})
               /\ isinstance(h1, addition, ElementKinds)
       THEN Ret([h1 EXCEPT ![output].elements = Append(@, addition)], output)
       ELSE IF /\ isinstance(h1, output, {"Modified"})
               /\ isinstance(h1, addition, {"Modifier"})
       THEN Ret([h1 EXCEPT ![output].modifiers = Append(@, addition)], output)
       ELSE Ret(h1, output)

\* add whose first rule also takes a Composite target: it wraps where it
\* should append
add_wrapping(h, element, addition) ==
    LET c == deepcopy(h, element)
        output == c.r
        h1 == c.h
    IN IF /\ isinstance(h1, output, {"Basic", "Modified", "Composite"})
          /\ isinstance(h1, addition, ElementKinds)
       THEN CompositeElement(h1, <<output, addition>>)
       ELSE IF /\ isinstance(h1, output, {"Basic", "Composite"})
               /\ isinstance(h1, addition, {"Modifier"})
       THEN ModifiedElement(h1, output, <<addition>>)
       ELSE IF /\ isinstance(h1, output, {"Modified"})
               /\ isinstance(h1, addition, {"Modifier"})
       THEN Ret([h1 EXCEPT ![output].modifiers = Append(@, addition)], output)
       ELSE Ret(h1, output)

add(h, element, addition) ==
    LET c == deepcopy(h, element)
        output == c.r
        h1 == c.h
    IN IF /\ isinstance(h1, output, {"Basic", "Modified"})
          /\ isinstance(h1, addition, ElementKinds)
       THEN CompositeElement(h1, <<output, addition>>)
       ELSE IF /\ isinstance(h1, output, {"Basic", "Composite"})
               /\ isinstance(h1, addition, {"Modifier"})
       THEN ModifiedElement(h1, output, <<addition>>)
       ELSE IF /\ isinstance(h1, output, {"Composite"})
               /\ isinstance(h1, addition, ElementKinds)
       THEN Ret([h1 EXCEPT ![output].elements = Append(@, addition)], output)
       ELSE IF /\ isinstance(h1, output, {"Modified"})
               /\ isinstance(h1, addition, {"Modifier"})
       THEN Ret([h1 EXCEPT ![output].modifiers = Append(@, addition)], output)
       ELSE Ret(h1, output)

\* remove that hands its argument back
remove_nothing(h, element) == Ret(h, element)

remove(h, element) == EmptyElement(h)

\* replace without the check of an ElementModifier target
replace_unchecked_modifier(h, element, replacement) ==
    IF /\ isinstance(h, element, ElementKinds)
       /\ ~isinstance(h, replacement, ElementKinds)
    THEN Raise(h, "TypeError")
    ELSE Ret(h, replacement)

replace(h, element, replacement) ==
    IF /\ isinstance(h, element, ElementKinds)
       /\ ~isinstance(h, replacement, ElementKinds)
    THEN Raise(h, "TypeError")
    ELSE IF /\ isinstance(h, element, {"Modifier"})
            /\ ~isinstance(h, replacement, {"Modifier"})
    THEN Raise(h, "TypeError")
    ELSE Ret(h, replacement)

\* op(element, *args): op is whatever object the caller passed as op
Apply(h, op, element, args) ==
    IF KindOf(h, op) # "function" THEN Raise(h, "TypeError")
    ELSE IF h[op].name = "add" THEN add(h, element, args[1])
    ELSE IF h[op].name = "remove" THEN remove(h, element)
    ELSE replace(h, element, args[1])

(* ---------------------------------------------------------------------- *)
(* Traversal engine                                                        *)
(* ---------------------------------------------------------------------- *)
RECURSIVE transform(_, _, _, _, _), comprehension(_, _, _, _, _)

\* [tfd for tfd in (transform(op, x, loc, *args) for x in items) if tfd]:
\* the recursive call passes op in the place of element and x in the place
\* of op, as the source does
comprehension(h, op, items, loc, args) ==
    IF Len(items) = 0 THEN [h |-> h, rs |-> <<>>, exc |-> ""]
    ELSE LET t == transform(h, op, items[1], loc, args) IN
         IF t.exc # "" THEN [h |-> t.h, rs |-> <<>>, exc |-> t.exc]
         ELSE LET rest == comprehension(t.h, op, SubSeq(items, 2, Len(items)),
                                        loc, args)
              IN [h |-> rest.h,
                  rs |-> IF Truthy(t.h, t.r) THEN <<t.r>> \o rest.rs ELSE rest.rs,
                  exc |-> rest.exc]

transform(h, element, op, loc, args) ==
    IF Eq(h, element, loc) THEN Apply(h, op, element, args)
    ELSE IF isinstance(h, element, {"Basic", "Modifier"}) THEN Ret(h, element)
    ELSE IF isinstance(h, element, {"Modified"}) THEN
        LET new_subelt == transform(h, op, h[element].element, loc, args) IN
        IF new_subelt.exc # "" THEN new_subelt
        ELSE LET new_mods == comprehension(new_subelt.h, op,
                                           h[element].modifiers, loc, args)
             IN IF new_mods.exc # "" THEN Raise(new_mods.h, new_mods.exc)
                ELSE IF Truthy(new_mods.h, new_subelt.r) /\ Len(new_mods.rs) > 0
                THEN ModifiedElement(new_mods.h, new_subelt.r, new_mods.rs)
                ELSE IF Truthy(new_mods.h, new_subelt.r) /\ Len(new_mods.rs) = 0
                THEN Ret(new_mods.h, new_subelt.r)
                ELSE EmptyElement(new_mods.h)
    ELSE IF isinstance(h, element, {"Composite"}) THEN
        LET new_elts == comprehension(h, op, h[element].elements, loc, args) IN
        IF new_elts.exc # "" THEN Raise(new_elts.h, new_elts.exc)
        ELSE IF Len(new_elts.rs) > 1 THEN CompositeElement(new_elts.h, new_elts.rs)
        ELSE IF Len(new_elts.rs) = 1 THEN Ret(new_elts.h, new_elts.rs[1])
        ELSE EmptyElement(new_elts.h)
    ELSE Ret(h, None)   \* no branch taken: the function ends without a return

(* ---------------------------------------------------------------------- *)
(* Rule aggregator                                                         *)
(* ---------------------------------------------------------------------- *)
\* names bound in the module's namespace (its imports and its definitions)
ModuleNames ==
    {"copy", "Callable", "Any", "ElementNode", "Element", "ElementModifier",
     "BasicElement", "EmptyElement", "ModifiedElement", "CompositeElement",
     "Transformation", "transform", "add", "remove", "replace"}

\* pre-order sequence of the nodes reachable from r, the root included
RECURSIVE get_subtrees(_, _), get_subtrees_seq(_, _)
get_subtrees(h, r) ==
    IF r = None THEN <<>>
    ELSE <<r>> \o get_subtrees(h, h[r].element)
             \o get_subtrees_seq(h, h[r].modifiers)
             \o get_subtrees_seq(h, h[r].elements)

get_subtrees_seq(h, rs) ==
    IF Len(rs) = 0 THEN <<>>
    ELSE get_subtrees(h, rs[1]) \o get_subtrees_seq(h, SubSeq(rs, 2, Len(rs)))

\* Transformation.__init__: the pairs are kept in the attribute "pairs"
Transformation_init(args) == [pairs |-> args]

\* the body of the for loop of Transformation.__call__, pair after pair
RECURSIVE Transformation_loop(_, _, _, _)
Transformation_loop(h, pairs, element, output) ==
    IF Len(pairs) = 0 THEN Ret(h, output)
    ELSE IF "get_subtrees" \notin ModuleNames THEN Raise(h, "NameError")
    ELSE LET condition == pairs[1].condition
             action == pairs[1].action
             subtrees == get_subtrees(h, element)
             t == IF \E i \in 1..Len(subtrees) : Eq(h, condition, subtrees[i])
                  THEN transform(h, output, action.op, action.loc, action.args)
                  ELSE Ret(h, output)
         IN IF t.exc # "" THEN t
            ELSE Transformation_loop(t.h, SubSeq(pairs, 2, Len(pairs)), element, t.r)

\* Transformation.__call__: the loop reads the attribute "args"
Transformation_call(h, self, element) ==
    LET output == deepcopy(h, element) IN
    IF "args" \notin DOMAIN self THEN Raise(output.h, "AttributeError")
    ELSE Transformation_loop(output.h, self.args, element, output.r)

(* ---------------------------------------------------------------------- *)
(* Inputs                                                                  *)
(* ---------------------------------------------------------------------- *)
Basics == {BasicV(s) : s \in Shapes}
Modifiers == {ModifierV(s) : s \in ModifierNames}
Leaves == {EmptyV} \cup Basics

\* Elems(n): the well-formed Element trees of exactly n nodes;
\* ElemLists(n): the non-empty sequences of such trees with n nodes in all
RECURSIVE Elems(_), ElemLists(_)
Elems(n) ==
    IF n = 1 THEN Leaves
    ELSE {CompositeV(es) : es \in {l \in ElemLists(n - 1) : Len(l) >= 2}}
         \cup UNION {{ModifiedV(b, ms) :
                          b \in {e \in Elems(i) : e.k \in {"Basic", "Composite"}},
                          ms \in [1..(n - 1 - i) -> Modifiers]} : i \in 1..(n - 2)}

ElemLists(n) ==
    {<<e>> : e \in Elems(n)}
    \cup UNION {{<<e>> \o l : e \in Elems(i), l \in ElemLists(n - i)} : i \in 1..(n - 1)}

NodesUpTo(n) == Modifiers \cup UNION {Elems(i) : i \in 1..n}

Inputs == NodesUpTo(MaxNodes)
LocVals == NodesUpTo(MaxLocNodes)
ArgVals ==
    {EmptyV, BasicV("b"), ModifierV("n"),
     CompositeV(<<BasicV("a"), BasicV("b")>>),
     ModifiedV(BasicV("a"), <<ModifierV("m")>>)}
OpNames == {"add", "remove", "replace"}
ArgSeqs(opn) == IF opn = "remove" THEN {<<>>} ELSE {<<v>> : v \in ArgVals}

\* (condition, (op, loc, *args)) pairs handed to Transformation(...)
PairVals ==
    {[condition |-> c, op |-> o, loc |-> l, args |-> a] :
        c \in {BasicV("a"), ModifierV("m")},
        o \in {"remove", "replace"},
        l \in {BasicV("a")},
        a \in {<<BasicV("b")>>}}
PairSeqs == {<<>>} \cup {<<p>> : p \in PairVals} \cup {<<p, q>> : p, q \in PairVals}

RECURSIVE AllocPairs(_, _)
AllocPairs(h, ps) ==
    IF Len(ps) = 0 THEN [h |-> h, rs |-> <<>>]
    ELSE LET c == Alloc(h, ps[1].condition)
             l == Alloc(c.h, ps[1].loc)
             a == AllocSeq(l.h, IF ps[1].op = "remove" THEN <<>> ELSE ps[1].args)
             rest == AllocPairs(a.h, SubSeq(ps, 2, Len(ps)))
         IN [h |-> rest.h,
             rs |-> << [condition |-> c.r,
                        action |-> [op |-> FnRef(ps[1].op), loc |-> l.r,
                                    args |-> a.rs]] >> \o rest.rs]

(* ---------------------------------------------------------------------- *)
(* State machine: a caller holding one tree makes one call                 *)
(* ---------------------------------------------------------------------- *)
VARIABLES
    heap,      \* the object heap
    element,   \* the caller's tree (a reference)
    before,    \* structural value of the caller's tree before the call
    call,      \* the call made: function, op, loc, args, pairs (references)
    result,    \* the reference returned (None when the call raised)
    raised,    \* name of the exception raised, "" if none
    pc         \* "ready" before the call, "done" after

vars == <<heap, element, before, call, result, raised, pc>>

NoCall == [fn |-> "", op |-> None, loc |-> None, args |-> <<>>, pairs |-> <<>>]

Init ==
    \E v \in Inputs :
        LET a == Alloc(ModuleHeap, v) IN
        /\ heap = a.h
        /\ element = a.r
        /\ before = v
        /\ call = NoCall
        /\ result = None
        /\ raised = ""
        /\ pc = "ready"

Finish(out, c) ==
    /\ heap' = out.h
    /\ result' = out.r
    /\ raised' = out.exc
    /\ call' = c
    /\ pc' = "done"
    /\ UNCHANGED <<element, before>>

CallTransform ==
    /\ pc = "ready"
    /\ \E opn \in OpNames, locv \in LocVals :
         \E argvs \in ArgSeqs(opn) :
            LET l == Alloc(heap, locv)
                a == AllocSeq(l.h, argvs)
            IN Finish(transform(a.h, element, FnRef(opn), l.r, a.rs),
                      [NoCall EXCEPT !.fn = "transform", !.op = FnRef(opn),
                                     !.loc = l.r, !.args = a.rs])

CallAdd ==
    /\ pc = "ready"
    /\ \E v \in ArgVals :
         LET a == Alloc(heap, v) IN
         Finish(add(a.h, element, a.r),
                [NoCall EXCEPT !.fn = "add", !.args = <<a.r>>])

CallRemove ==
    /\ pc = "ready"
    /\ Finish(remove(heap, element), [NoCall EXCEPT !.fn = "remove"])

CallReplace ==
    /\ pc = "ready"
    /\ \E v \in ArgVals \cup {NoneV} :
         LET a == Alloc(heap, v) IN
         Finish(replace(a.h, element, a.r),
                [NoCall EXCEPT !.fn = "replace", !.args = <<a.r>>])

CallTransformation ==
    /\ pc = "ready"
    /\ isinstance(heap, element, ElementKinds)
    /\ \E ps \in PairSeqs :
         LET a == AllocPairs(heap, ps)
             self == Transformation_init(a.rs)
         IN Finish(Transformation_call(a.h, self, element),
                   [NoCall EXCEPT !.fn = "Transformation", !.pairs = a.rs])

Next ==
    \/ CallTransform
    \/ CallAdd
    \/ CallRemove
    \/ CallReplace
    \/ CallTransformation

Spec == Init /\ [][Next]_vars

(* ---------------------------------------------------------------------- *)
(* Vocabulary of the properties (structural values only)                   *)
(* ---------------------------------------------------------------------- *)
Done(fn) == pc = "done" /\ call.fn = fn
ResultV == Val(heap, result)
LocV == Val(heap, call.loc)
ArgsV == [i \in 1..Len(call.args) |-> Val(heap, call.args[i])]
OpName == heap[call.op].name
IsElementV(v) == v.k \in ElementKinds
IsModifierV(v) == v.k = "Modifier"
TruthyV(v) == v.k \notin {"None", "Empty"}

RECURSIVE SubtreesV(_)
SubtreesV(v) ==
    {v} \cup UNION {SubtreesV(v.element[i]) : i \in 1..Len(v.element)}
        \cup UNION {SubtreesV(v.elements[i]) : i \in 1..Len(v.elements)}
        \cup UNION {SubtreesV(v.modifiers[i]) : i \in 1..Len(v.modifiers)}

Outcome(o) == [exc |-> o.exc, v |-> Val(o.h, o.r)]
Fine(v) == [exc |-> "", v |-> v]

\* op(v, *args) on a tree of value v, as the operation named opn computes it
OpV(v, opn, args) ==
    LET e == Alloc(ModuleHeap, v)
        a == AllocSeq(e.h, args)
    IN Outcome(Apply(a.h, FnRef(opn), e.r, a.rs))

\* transform(v, op, loc, *args) called by its signature on a tree of value v
TransformV(v, opn, locv, args) ==
    LET e == Alloc(ModuleHeap, v)
        l == Alloc(e.h, locv)
        a == AllocSeq(l.h, args)
    IN Outcome(transform(a.h, e.r, FnRef(opn), l.r, a.rs))

FirstExc(os) ==
    IF \E i \in 1..Len(os) : os[i].exc # ""
    THEN os[CHOOSE i \in 1..Len(os) :
                /\ os[i].exc # ""
                /\ \A j \in 1..(i - 1) : os[j].exc = ""].exc
    ELSE ""

KeepTruthy(o) == TruthyV(o.v)
Survivors(os) == LET kept == SelectSeq(os, KeepTruthy)
                 IN [i \in 1..Len(kept) |-> kept[i].v]

\* the collapse rules of a Composite and of a Modified, on the outcomes of
\* their parts
CollapseComposite(kids) ==
    IF FirstExc(kids) # "" THEN [exc |-> FirstExc(kids), v |-> NoneV]
    ELSE LET s == Survivors(kids) IN
         Fine(IF Len(s) = 0 THEN EmptyV ELSE IF Len(s) = 1 THEN s[1]
              ELSE CompositeV(s))

CollapseModified(base, mods) ==
    IF FirstExc(<<base>> \o mods) # ""
    THEN [exc |-> FirstExc(<<base>> \o mods), v |-> NoneV]
    ELSE LET s == Survivors(mods) IN
         Fine(IF ~TruthyV(base.v) THEN EmptyV ELSE IF Len(s) = 0 THEN base.v
              ELSE ModifiedV(base.v, s))

\* the tree in which every occurrence of locv is replaced by op(occurrence),
\* without descending into an occurrence
RECURSIVE Rewritten(_, _, _, _)
Rewritten(v, opn, locv, args) ==
    IF v = locv THEN OpV(v, opn, args)
    ELSE IF v.k = "Composite"
    THEN CollapseComposite([i \in 1..Len(v.elements) |->
                               Rewritten(v.elements[i], opn, locv, args)])
    ELSE IF v.k = "Modified"
    THEN CollapseModified(Rewritten(v.element[1], opn, locv, args),
                          [i \in 1..Len(v.modifiers) |->
                               Rewritten(v.modifiers[i], opn, locv, args)])
    ELSE Fine(v)

Agrees(expected) ==
    /\ raised = expected.exc
    /\ raised = "" => ResultV = expected.v

RECURSIVE WellFormedV(_)
WellFormedV(v) ==
    \/ v.k \in {"Empty", "Basic"}
    \/ /\ v.k = "Composite"
       /\ Len(v.elements) >= 2
       /\ \A i \in 1..Len(v.elements) :
            IsElementV(v.elements[i]) /\ WellFormedV(v.elements[i])
    \/ /\ v.k = "Modified"
       /\ v.element[1].k \in {"Basic", "Composite"}
       /\ WellFormedV(v.element[1])
       /\ Len(v.modifiers) >= 1
       /\ \A i \in 1..Len(v.modifiers) : IsModifierV(v.modifiers[i])

(* ---------------------------------------------------------------------- *)
(* Properties                                                              *)
(* ---------------------------------------------------------------------- *)

\* C1 (identity law): transform(T, op, loc, ...) with T an Element tree and
\* loc equal to no subtree of T returns, without raising, a tree
\* structurally equal to T.
IdentityLaw ==
    (Done("transform") /\ IsElementV(before) /\ LocV \notin SubtreesV(before))
        => (raised = "" /\ ResultV = before)

\* C2: transform(element, op, loc, *args) returns element with every
\* occurrence of loc, at any depth, replaced by op(occurrence, *args), a
\* matched subtree not being searched further.
EveryOccurrenceReplaced ==
    (Done("transform") /\ IsElementV(before))
        => Agrees(Rewritten(before, OpName, LocV, ArgsV))

\* C3 (collapse law): transform of a Composite that is not loc drops the
\* empty transformed children and returns Empty for 0 survivors, the one
\* survivor itself for 1, and a Composite of the survivors in order for 2 or
\* more.
CompositeCollapseLaw ==
    (Done("transform") /\ before.k = "Composite" /\ before # LocV)
        => Agrees(CollapseComposite(
               [i \in 1..Len(before.elements) |->
                   TransformV(before.elements[i], OpName, LocV, ArgsV)]))

\* C4: transform of a Modified that is not loc transforms base and modifiers
\* independently and returns Empty if the transformed base is empty, the
\* bare transformed base if no modifier survives, else a Modified of the
\* transformed base and the surviving modifiers in order.
ModifiedCollapseLaw ==
    (Done("transform") /\ before.k = "Modified" /\ before # LocV)
        => Agrees(CollapseModified(
               TransformV(before.element[1], OpName, LocV, ArgsV),
               [i \in 1..Len(before.modifiers) |->
                   TransformV(before.modifiers[i], OpName, LocV, ArgsV)]))

\* the working tree after the pairs ps, each applied when its condition
\* occurs among the subtrees of the original input
RECURSIVE PairsApplied(_, _, _)
PairsApplied(ps, input, working) ==
    IF Len(ps) = 0 THEN Fine(working)
    ELSE LET a == ps[1].action
             t == IF Val(heap, ps[1].condition) \in SubtreesV(input)
                  THEN TransformV(working, heap[a.op].name, Val(heap, a.loc),
                                  [i \in 1..Len(a.args) |-> Val(heap, a.args[i])])
                  ELSE Fine(working)
         IN IF t.exc # "" THEN t
            ELSE PairsApplied(SubSeq(ps, 2, Len(ps)), input, t.v)

\* C5: applying a Transformation returns the input rewritten by transform
\* for each pair, in declaration order, whose condition occurs among the
\* subtrees of the original input; with no matching pair it returns a tree
\* equal to the input.
TransformationLaw ==
    Done("Transformation") => Agrees(PairsApplied(call.pairs, before, before))

\* C6: replace(element, replacement) returns replacement itself for a
\* same-family pair and raises a type error, returning nothing, for a
\* cross-family pair.
ReplaceLaw ==
    Done("replace") =>
        LET r == ArgsV[1] IN
        /\ ((IsElementV(before) /\ IsElementV(r))
              \/ (IsModifierV(before) /\ IsModifierV(r)))
             => (raised = "" /\ result = call.args[1])
        /\ ((IsElementV(before) /\ ~IsElementV(r))
              \/ (IsModifierV(before) /\ ~IsModifierV(r)))
             => (raised = "TypeError" /\ result = None)

ReplaceWitness ==
    /\ Done("replace")
    /\ IsModifierV(before)
    /\ IsElementV(ArgsV[1])
    /\ raised = "TypeError"

\* the dispatch table of add, on structural values
AddTable(e, a) ==
    IF e.k \in {"Basic", "Modified"} /\ IsElementV(a) THEN CompositeV(<<e, a>>)
    ELSE IF e.k \in {"Basic", "Composite"} /\ IsModifierV(a) THEN ModifiedV(e, <<a>>)
    ELSE IF e.k = "Composite" /\ IsElementV(a) THEN CompositeV(Append(e.elements, a))
    ELSE IF e.k = "Modified" /\ IsModifierV(a)
    THEN ModifiedV(e.element[1], Append(e.modifiers, a))
    ELSE e

\* C7: add(element, addition) returns what the dispatch table gives:
\* Composite(target, addition), Modified(target, addition), the target's
\* children or modifiers with addition appended last, or a copy equal to
\* element for every other pairing.
AddLaw ==
    Done("add") =>
        /\ raised = ""
        /\ ResultV = AddTable(before, ArgsV[1])
        /\ result # element

AddWitness ==
    /\ Done("add")
    /\ before.k = "Composite"
    /\ IsElementV(ArgsV[1])
    /\ Len(ResultV.elements) = Len(before.elements) + 1
    /\ ResultV.elements[Len(ResultV.elements)] = ArgsV[1]

\* C8 (non-mutation law): after any call of add, remove, replace, transform
\* or a Transformation, whether it returned or raised, the caller's tree is
\* structurally equal to its value before the call.
NonMutationLaw ==
    pc = "done" => Val(heap, element) = before

NonMutationWitness ==
    /\ Done("add")
    /\ before.k = "Modified"
    /\ IsModifierV(ArgsV[1])
    /\ Len(ResultV.modifiers) = Len(before.modifiers) + 1
    /\ Val(heap, element) = before

\* C9: remove(E) returns EmptyElement for every node E without raising, and
\* transform(T, remove, T) is EmptyElement for every tree T.
RemoveLaw ==
    /\ Done("remove") => (raised = "" /\ ResultV = EmptyV)
    /\ (Done("transform") /\ OpName = "remove" /\ LocV = before)
         => (raised = "" /\ ResultV = EmptyV)

RemoveWitness ==
    /\ Done("transform")
    /\ OpName = "remove"
    /\ LocV = before
    /\ before.k = "Composite"
    /\ ResultV = EmptyV

\* C10: a transform with op among add, remove, replace that returns, called
\* on a well-formed tree with a well-formed loc and argument, yields a
\* well-formed tree.
WellFormednessPreserved ==
    (/\ Done("transform")
     /\ raised = ""
     /\ WellFormedV(before)
     /\ (WellFormedV(LocV) \/ IsModifierV(LocV))
     /\ \A i \in 1..Len(ArgsV) : WellFormedV(ArgsV[i]) \/ IsModifierV(ArgsV[i]))
        => WellFormedV(ResultV)

====
